---- MODULE Spec2Model ----
(***************************************************************************)
(* Model of src/fill.py: the block parser build_flowables and the          *)
(* paginator make_overlay_pages.                                           *)
(*                                                                         *)
(* Two specifications live in this module.  Spec runs make_overlay_pages   *)
(* on a block sequence of the shape build_flowables emits (plain blocks    *)
(* and non-nested SECTION tuples of two or more blocks).  ParseSpec runs   *)
(* build_flowables line by line on a text drawn from a small set of lines. *)
(***************************************************************************)
EXTENDS Integers, Sequences, FiniteSets, TLC

(***************************************************************************)
(* Bounds.                                                                 *)
(***************************************************************************)
\* largest number of blocks (SECTION contents counted) in a paginated input
MaxBlocks == 4

\* a run that places a block on every page needs at most MaxBlocks pages;
\* the loop of make_overlay_pages is cut off once this many pages exist
MaxPages == MaxBlocks + 2

\* largest number of lines of a parsed text
MaxLines == 4

\* the lines a parsed text is made of:  "", "# a", "## a", "- a", "1. a",
\* "a:", "a", "- a:", " - a", "- " and " "
Lines ==
    { <<>>,
      <<" ">>,
      <<"#", " ", "a">>,
      <<"#", "#", " ", "a">>,
      <<"-", " ", "a">>,
      <<"1", ".", " ", "a">>,
      <<"a", ":">>,
      <<"a">>,
      <<"-", " ", "a", ":">>,
      <<" ", "-", " ", "a">>,
      <<"-", " ">> }

Texts == UNION { [1..n -> Lines] : n \in 0..MaxLines }

\* heights a block can measure to (f.wrap), and the content heights tried
Heights == {4, 8, 24}
ContentHeights == {20, 24}

(***************************************************************************)
(* Flowables.  Every flowable is a record of one shape:                    *)
(*   kind        "Paragraph", "ListFlowable", "Spacer" or, for the tuple   *)
(*               ("SECTION", items), "SECTION"                             *)
(*   style       "body", "h1" or "h2" for a Paragraph                      *)
(*   bulletType  "bullet" or "1" for a ListFlowable                        *)
(*   text        the Paragraph's markup, a sequence of characters          *)
(*   items       the ListItems of a ListFlowable, the list of a SECTION    *)
(*   id          the number of the input line a parsed Paragraph or Spacer *)
(*               was built from, the position of a block handed to the     *)
(*               paginator; it tells equal-looking flowables apart         *)
(*   h           the height f.wrap reports for a block handed to the       *)
(*               paginator                                                 *)
(***************************************************************************)
Flowable(k, st, bt, txt, its, i, height) ==
    [kind |-> k, style |-> st, bulletType |-> bt, text |-> txt,
     items |-> its, id |-> i, h |-> height, raises |-> FALSE]

\* a measured block of a paginator input
Block(i, height) == Flowable("Paragraph", "body", "", <<>>, <<>>, i, height)

\* a block whose wrap raises whenever it is called: it has no height
RaisingBlock(i) == [Block(i, 0) EXCEPT !.raises = TRUE]

\* ("SECTION", items)
Section(its) == Flowable("SECTION", "", "", <<>>, its, 0, 0)

\* isinstance(item, tuple) and item[0] == 'SECTION'
IsSection(item) == item.kind = "SECTION"

(***************************************************************************)
(* Text.  A line is a sequence of one-character strings; the markup        *)
(* _inline_format writes adds the tokens "&nbsp;", "<b>", "</b>", "<i>"    *)
(* and "</i>", each one element of the sequence.                           *)
(***************************************************************************)
IsSpace(c) == c \in {" ", "\t"}

IsDigit(c) == c \in {"0", "1", "2", "3", "4", "5", "6", "7", "8", "9"}

RECURSIVE LStrip(_)
LStrip(s) == IF s # <<>> /\ IsSpace(Head(s)) THEN LStrip(Tail(s)) ELSE s

RECURSIVE RStrip(_)
RStrip(s) ==
    IF s # <<>> /\ IsSpace(s[Len(s)]) THEN RStrip(SubSeq(s, 1, Len(s) - 1)) ELSE s

\* str.strip()
Strip(s) == RStrip(LStrip(s))

\* str.startswith(prefix)
StartsWith(s, prefix) ==
    Len(s) >= Len(prefix) /\ SubSeq(s, 1, Len(prefix)) = prefix

\* str.endswith(':')
EndsWithColon(s) == s # <<>> /\ s[Len(s)] = ":"

DropFirst(s, n) == SubSeq(s, n + 1, Len(s))

\* re.match(r'^[\-\*]\s+(.*)', s) succeeds
MatchesBullet(s) == Len(s) >= 2 /\ s[1] \in {"-", "*"} /\ IsSpace(s[2])

\* its group(1): \s+ takes all the whitespace behind the marker
BulletText(s) == LStrip(DropFirst(s, 1))

\* the length of the run of digits s starts with
RECURSIVE DigitRun(_)
DigitRun(s) == IF s # <<>> /\ IsDigit(Head(s)) THEN 1 + DigitRun(Tail(s)) ELSE 0

\* re.match(r'^(\d+)\.\s+(.*)', s) succeeds
MatchesNumber(s) ==
    LET d == DigitRun(s)
    IN d >= 1 /\ Len(s) >= d + 2 /\ s[d + 1] = "." /\ IsSpace(s[d + 2])

\* its group(2)
NumberText(s) == LStrip(DropFirst(s, DigitRun(s) + 1))

\* the length of the run of ' ' s starts with
RECURSIVE SpaceRun(_)
SpaceRun(s) == IF s # <<>> /\ Head(s) = " " THEN 1 + SpaceRun(Tail(s)) ELSE 0

Repeat(x, n) == [k \in 1..n |-> x]

\* re.sub(r' {2,}', _preserve_spaces, s)
RECURSIVE PreserveSpaces(_)
PreserveSpaces(s) ==
    IF s = <<>> THEN <<>>
    ELSE LET n == SpaceRun(s)
         IN IF n >= 2
            THEN Repeat("&nbsp;", n - 1) \o <<" ">> \o PreserveSpaces(DropFirst(s, n))
            ELSE <<Head(s)>> \o PreserveSpaces(Tail(s))

\* d asterisks stand at position p of s
StarsAt(s, p, d) == p + d - 1 <= Len(s) /\ \A k \in 0..(d - 1) : s[p + k] = "*"

\* where the closing asterisks of (.+?) can stand when s opens with d of them
Closers(s, d) == { q \in (d + 2)..Len(s) : StarsAt(s, q, d) }

SetMin(S) == CHOOSE x \in S : \A y \in S : x <= y

\* re.sub of a pair of d asterisks around (.+?) by an open and a close tag
RECURSIVE SubEmphasis(_, _, _, _)
SubEmphasis(s, d, open, close) ==
    IF s = <<>> THEN <<>>
    ELSE IF StarsAt(s, 1, d) /\ Closers(s, d) # {}
    THEN LET q == SetMin(Closers(s, d))
         IN <<open>> \o SubSeq(s, d + 1, q - 1) \o <<close>>
            \o SubEmphasis(DropFirst(s, q + d - 1), d, open, close)
    ELSE <<Head(s)>> \o SubEmphasis(Tail(s), d, open, close)

_inline_format(s) ==
    SubEmphasis(SubEmphasis(PreserveSpaces(s), 2, "<b>", "</b>"), 1, "<i>", "</i>")

(***************************************************************************)
(* What build_flowables builds.                                            *)
(***************************************************************************)
\* Paragraph(text, style) built from input line i
Paragraph(txt, st, i) == Flowable("Paragraph", st, "", txt, <<>>, i, 0)

\* Spacer(1, 6) built from input line i
Spacer(i) == Flowable("Spacer", "", "", <<>>, <<>>, i, 6)

\* ListFlowable(items, bulletType=...)
ListFlowable(its, bt) == Flowable("ListFlowable", "", bt, <<>>, its, 0, 0)

\* the two bullet types the wrong way round
FlushedListSwapped(cl, clt) ==
    ListFlowable(cl, IF clt = "bullet" THEN "1" ELSE "bullet")

\* the ListFlowable flush_list builds from the open list
FlushedList(cl, clt) == ListFlowable(cl, IF clt = "bullet" THEN "bullet" ELSE "1")

\* the open list lost instead of appended to the open section
SectionAfterListFlushDropping(cs, cl, clt) == cs

\* "if current_list: flush_list(current_section if current_section is not
\* None else flowables)": the section accumulator afterwards
SectionAfterListFlush(cs, cl, clt) ==
    IF cl # <<>> /\ cs # <<>> THEN Append(cs, FlushedList(cl, clt)) ELSE cs

\* the same statement: the top-level list afterwards
FlowablesAfterListFlush(fl, cs, cl, clt) ==
    IF cl # <<>> /\ cs = <<>> THEN Append(fl, FlushedList(cl, clt)) ELSE fl

\* flush_section wrapping a single block as well
flush_sectionAlwaysWrapping(fl, cs) ==
    IF cs = <<>> THEN fl ELSE Append(fl, Section(cs))

\* flush_section(): the top-level list afterwards
flush_section(fl, cs) ==
    IF cs = <<>> THEN fl
    ELSE IF Len(cs) > 1 THEN Append(fl, Section(cs))
    ELSE fl \o cs

RECURSIVE SeqSum(_)
SeqSum(s) == IF s = <<>> THEN 0 ELSE Head(s).h + SeqSum(Tail(s))

\* the loop "for item in work[start:]" of the flattening pass
RECURSIVE FlattenAll(_)
FlattenAll(s) ==
    IF s = <<>> THEN <<>>
    ELSE IF IsSection(Head(s)) THEN Head(s).items \o FlattenAll(Tail(s))
    ELSE <<Head(s)>> \o FlattenAll(Tail(s))

\* the pass of lines 171-182 left out: work stays as it is
FlattenWorkNone(w) == w

\* the flattening pass at the top of every loop iteration: with more than
\* one entry in work, a SECTION at index 0 is kept and every later SECTION
\* is replaced by its blocks
FlattenWork(w) ==
    IF Len(w) > 1
    THEN IF IsSection(w[1]) THEN <<w[1]>> \o FlattenAll(Tail(w))
         ELSE FlattenAll(w)
    ELSE w

\* float('inf') of line 164: above every height and every content height
Infinity == 1000000

\* estimate_height(flow_items, width, max_h): running total of the wrapped
\* heights, returned as soon as it exceeds max_h; Infinity when a wrap raises
RECURSIVE EstimateFrom(_, _, _)
EstimateFrom(s, total, max_h) ==
    IF s = <<>> THEN total
    ELSE IF Head(s).raises THEN Infinity
    ELSE LET t == total + Head(s).h
         IN IF t > max_h THEN t ELSE EstimateFrom(Tail(s), t, max_h)

estimate_height(flow_items, max_h) == EstimateFrom(flow_items, 0, max_h)

(***************************************************************************)
(* The frame.  Frame(left, bottom, content_width, content_height,          *)
(* leftPadding=6, rightPadding=6) keeps reportlab's top and bottom padding *)
(* of 6 as well, so the height it can fill is content_height - 12.  A      *)
(* block is taken to need in the frame the height h it wraps to for        *)
(* estimate_height; the space before and after a flowable and the 12       *)
(* points the frame is narrower than content_width can only add to it.     *)
(***************************************************************************)
FramePadding == 6

\* the paddings added to the height instead of taken off it
FrameHeightWidened(ch) == ch + FramePadding + FramePadding

FrameHeight(ch) == ch - FramePadding - FramePadding

\* Frame.addFromList(drawlist, canv): takes flowables off the front of
\* drawlist while Frame.add accepts them; the first one that does not fit
\* the space left stays at the head of drawlist and ends the call.
\* Returns what was drawn, what is left of drawlist and the space left.
\* Frame.add wraps the flowable, outside any try, whenever space is left;
\* raised tells that this wrap raised, which ends the call with the
\* exception instead of a result.
RECURSIVE addFromList(_, _)
addFromList(drawlist, avail) ==
    IF drawlist = <<>>
    THEN [placed |-> <<>>, rest |-> <<>>, avail |-> avail, raised |-> FALSE]
    ELSE IF Head(drawlist).raises
    THEN [placed |-> <<>>, rest |-> drawlist, avail |-> avail,
          raised |-> avail > 0]
    ELSE IF Head(drawlist).h <= avail
    THEN LET r == addFromList(Tail(drawlist), avail - Head(drawlist).h)
         IN [placed |-> <<Head(drawlist)>> \o r.placed, rest |-> r.rest,
             avail |-> r.avail, raised |-> r.raised]
    ELSE [placed |-> <<>>, rest |-> drawlist, avail |-> avail,
          raised |-> FALSE]

\* Frame.add refused the head of what is left, there was space left to try
\* it in, and that flowable is taller than the whole frame: with
\* rl_config.allowTableBoundsErrors switched off reportlab raises
\* LayoutError here instead of returning 0
TooLarge(r, ch) ==
    /\ r.rest # <<>>
    /\ ~Head(r.rest).raises
    /\ r.avail > 0
    /\ Head(r.rest).h > FrameHeight(ch)

(***************************************************************************)
(* Inputs of make_overlay_pages: n blocks with ids 1..n in order, cut into *)
(* top-level entries after the positions in brk; a group of one position   *)
(* is a plain block, a longer group a SECTION.                             *)
(***************************************************************************)
RECURSIVE GroupEnd(_, _, _)
GroupEnd(i, n, brk) ==
    IF i >= n \/ i \in brk THEN i ELSE GroupEnd(i + 1, n, brk)

RECURSIVE BlocksFromTo(_, _, _)
BlocksFromTo(i, j, hs) ==
    IF i > j THEN <<>> ELSE <<Block(i, hs[i])>> \o BlocksFromTo(i + 1, j, hs)

RECURSIVE BuildInput(_, _, _, _)
BuildInput(i, n, hs, brk) ==
    IF i > n THEN <<>>
    ELSE LET j == GroupEnd(i, n, brk)
         IN (IF j = i THEN <<Block(i, hs[i])>>
             ELSE <<Section(BlocksFromTo(i, j, hs))>>)
            \o BuildInput(j + 1, n, hs, brk)

Inputs ==
    UNION { { BuildInput(1, n, hs, brk) :
                hs \in [1..n -> Heights], brk \in SUBSET (1..(n - 1)) } :
            n \in 0..MaxBlocks }

\* the block with id r of s, at the top level or inside a SECTION, made one
\* whose wrap raises; s itself when no block has that id
MarkRaising(f, r) ==
    IF ~IsSection(f) /\ f.id = r THEN RaisingBlock(r) ELSE f

WithRaising(s, r) ==
    [n \in DOMAIN s |->
        IF IsSection(s[n])
        THEN Section([m \in DOMAIN s[n].items |-> MarkRaising(s[n].items[m], r)])
        ELSE MarkRaising(s[n], r)]

\* the inputs with at most one block that cannot be measured
MeasureInputs == { WithRaising(s, r) : s \in Inputs, r \in 0..MaxBlocks }

(***************************************************************************)
(* State.                                                                  *)
(***************************************************************************)
VARIABLES
    lines,             \* build_flowables: text.splitlines()
    i,                 \* the line index of its loop, counted from 1
    current_list,      \* the open list's Paragraphs; <<>> stands for None
    current_list_type, \* "bullet", "number" or "none" for None
    current_section,   \* the open section's blocks; <<>> stands for None
    flowables,         \* the list build_flowables fills and returns, and
                       \* the block sequence make_overlay_pages is given
    content_height,    \* make_overlay_pages: the page capacity passed in
    work,              \* the work queue
    overlays,          \* the pages produced so far, each the blocks drawn
    pc                 \* "parse", "parsed": build_flowables in its loop,
                       \* returned; "run", "done", "raised", "wrap_raised":
                       \* make_overlay_pages in its loop, returned, left by
                       \* an exception

parserVars == <<lines, i, current_list, current_list_type, current_section>>

pagerVars == <<content_height, work, overlays>>

vars == <<lines, i, current_list, current_list_type, current_section,
          flowables, content_height, work, overlays, pc>>

(***************************************************************************)
(* build_flowables, one action for each branch of its loop body.           *)
(***************************************************************************)
ParseInit ==
    /\ lines \in Texts
    /\ i = 1
    /\ current_list = <<>>
    /\ current_list_type = "none"
    /\ current_section = <<>>
    /\ flowables = <<>>
    /\ content_height = 0
    /\ work = <<>>
    /\ overlays = <<>>
    /\ pc = "parse"

AtLine == pc = "parse" /\ i <= Len(lines)

line == lines[i]

\* nxt = lines[i+1] if i+1 < len(lines) else ''
nxt == IF i + 1 <= Len(lines) THEN lines[i + 1] ELSE <<>>

\* not line.strip()
IsBlank(l) == Strip(l) = <<>>

\* line.startswith('# ')
IsH1(l) == StartsWith(l, <<"#", " ">>)

\* line.startswith('## ')
IsH2(l) == StartsWith(l, <<"#", "#", " ">>)

\* line.strip().endswith(':') and (m_bullet_next or m_number_next)
IsLabel(l, n) ==
    /\ EndsWithColon(Strip(l))
    /\ (MatchesBullet(Strip(n)) \/ MatchesNumber(Strip(n)))

\* a new list only when none is open, whatever the kind of the open one
OpensNewListWhenNone(clt, kind) == clt = "none"

\* current_list_type != 'bullet' (or 'number'): the line opens a new list
OpensNewList(clt, kind) == clt # kind

\* the section accumulator and the top-level list once the open list has
\* been flushed to the current container
SectionFlushed ==
    SectionAfterListFlush(current_section, current_list, current_list_type)

FlowablesFlushed ==
    FlowablesAfterListFlush(flowables, current_section, current_list,
                            current_list_type)

\* flush_list leaves no open list
ListClosed ==
    /\ current_list' = <<>>
    /\ current_list_type' =
           IF current_list # <<>> THEN "none" ELSE current_list_type

\* a blank line adding no Spacer behind a Spacer
BlankLineCoalescing ==
    /\ AtLine
    /\ IsBlank(line)
    /\ IF current_section # <<>>
       THEN /\ current_section' =
                   IF SectionFlushed[Len(SectionFlushed)].kind = "Spacer"
                   THEN SectionFlushed
                   ELSE Append(SectionFlushed, Spacer(i))
            /\ flowables' = flowables
       ELSE /\ flowables' =
                   IF FlowablesFlushed # <<>>
                      /\ FlowablesFlushed[Len(FlowablesFlushed)].kind = "Spacer"
                   THEN FlowablesFlushed
                   ELSE Append(FlowablesFlushed, Spacer(i))
            /\ current_section' = current_section
    /\ ListClosed
    /\ i' = i + 1
    /\ UNCHANGED <<lines, pagerVars, pc>>

\* lines 63-74
BlankLine ==
    /\ AtLine
    /\ IsBlank(line)
    /\ IF current_section # <<>>
       THEN /\ current_section' = Append(SectionFlushed, Spacer(i))
            /\ flowables' = flowables
       ELSE /\ flowables' = Append(FlowablesFlushed, Spacer(i))
            /\ current_section' = current_section
    /\ ListClosed
    /\ i' = i + 1
    /\ UNCHANGED <<lines, pagerVars, pc>>

\* a '# ' heading that goes into the open section instead of closing it
H1LineKeepingSection ==
    /\ AtLine
    /\ ~IsBlank(line)
    /\ IsH1(line)
    /\ IF current_section # <<>>
       THEN /\ current_section' =
                   Append(SectionFlushed,
                          Paragraph(_inline_format(Strip(DropFirst(line, 2))),
                                    "h1", i))
            /\ flowables' = flowables
       ELSE /\ flowables' =
                   Append(FlowablesFlushed,
                          Paragraph(_inline_format(Strip(DropFirst(line, 2))),
                                    "h1", i))
            /\ current_section' = current_section
    /\ ListClosed
    /\ i' = i + 1
    /\ UNCHANGED <<lines, pagerVars, pc>>

\* lines 76-82
H1Line ==
    /\ AtLine
    /\ ~IsBlank(line)
    /\ IsH1(line)
    /\ flowables' =
           Append(flush_section(FlowablesFlushed, SectionFlushed),
                  Paragraph(_inline_format(Strip(DropFirst(line, 2))), "h1", i))
    /\ current_section' = <<>>
    /\ ListClosed
    /\ i' = i + 1
    /\ UNCHANGED <<lines, pagerVars, pc>>

\* lines 84-90
H2Line ==
    /\ AtLine
    /\ ~IsBlank(line)
    /\ ~IsH1(line)
    /\ IsH2(line)
    /\ flowables' = flush_section(FlowablesFlushed, SectionFlushed)
    /\ current_section' =
           <<Paragraph(_inline_format(Strip(DropFirst(line, 3))), "h2", i)>>
    /\ ListClosed
    /\ i' = i + 1
    /\ UNCHANGED <<lines, pagerVars, pc>>

NoHeading(l) == ~IsBlank(l) /\ ~IsH1(l) /\ ~IsH2(l)

\* lines 92-101
LabelLine ==
    /\ AtLine
    /\ NoHeading(line)
    /\ IsLabel(line, nxt)
    /\ flowables' = flush_section(FlowablesFlushed, SectionFlushed)
    /\ current_section' = <<Paragraph(_inline_format(Strip(line)), "body", i)>>
    /\ ListClosed
    /\ i' = i + 1
    /\ UNCHANGED <<lines, pagerVars, pc>>

\* lines 106-111 and 115-120: a list line of the given kind with item text txt
ListLine(kind, txt) ==
    /\ IF OpensNewList(current_list_type, kind)
       THEN /\ current_section' = SectionFlushed
            /\ flowables' = FlowablesFlushed
            /\ current_list' = <<Paragraph(_inline_format(Strip(txt)), "body", i)>>
       ELSE /\ current_section' = current_section
            /\ flowables' = flowables
            /\ current_list' =
                   Append(current_list,
                          Paragraph(_inline_format(Strip(txt)), "body", i))
    /\ current_list_type' = kind
    /\ i' = i + 1
    /\ UNCHANGED <<lines, pagerVars, pc>>

\* lines 103-113
BulletLine ==
    /\ AtLine
    /\ NoHeading(line)
    /\ ~IsLabel(line, nxt)
    /\ MatchesBullet(line)
    /\ ListLine("bullet", BulletText(line))

\* lines 104, 114-122
NumberLine ==
    /\ AtLine
    /\ NoHeading(line)
    /\ ~IsLabel(line, nxt)
    /\ ~MatchesBullet(line)
    /\ MatchesNumber(line)
    /\ ListLine("number", NumberText(line))

\* lines 124-132
ParagraphLine ==
    /\ AtLine
    /\ NoHeading(line)
    /\ ~IsLabel(line, nxt)
    /\ ~MatchesBullet(line)
    /\ ~MatchesNumber(line)
    /\ IF current_section # <<>>
       THEN /\ current_section' =
                   Append(SectionFlushed,
                          Paragraph(Strip(_inline_format(line)), "body", i))
            /\ flowables' = flowables
       ELSE /\ flowables' =
                   Append(FlowablesFlushed,
                          Paragraph(Strip(_inline_format(line)), "body", i))
            /\ current_section' = current_section
    /\ ListClosed
    /\ i' = i + 1
    /\ UNCHANGED <<lines, pagerVars, pc>>

\* lines 134-137: the loop is over
EndOfInput ==
    /\ pc = "parse"
    /\ i > Len(lines)
    /\ flowables' = flush_section(FlowablesFlushed, SectionFlushed)
    /\ current_section' = <<>>
    /\ ListClosed
    /\ pc' = "parsed"
    /\ UNCHANGED <<lines, i, pagerVars>>

ParseNext ==
    \/ BlankLine \/ H1Line \/ H2Line \/ LabelLine
    \/ BulletLine \/ NumberLine \/ ParagraphLine \/ EndOfInput

ParseSpec == ParseInit /\ [][ParseNext]_vars

(***************************************************************************)
(* make_overlay_pages, one action for each branch of its loop body.        *)
(***************************************************************************)
Init ==
    /\ lines = <<>>
    /\ i = 1
    /\ current_list = <<>>
    /\ current_list_type = "none"
    /\ current_section = <<>>
    /\ flowables \in Inputs
    /\ content_height \in ContentHeights
    /\ work = flowables
    /\ overlays = <<>>
    /\ pc = "run"

InLoop == pc = "run" /\ work # <<>> /\ Len(overlays) < MaxPages

\* the frame calls of the keep-together branch (lines 194-198): the copy
\* of the section's list first, then the queue behind the section
KeepFirst(w) == addFromList(w[1].items, FrameHeight(content_height))

KeepSecond(w) == addFromList(Tail(w), KeepFirst(w).avail)

\* line 194 written as frame.addFromList(items, canv): the frame takes the
\* blocks it draws off the section's own list, which the caller's tuple
\* holds as well
KeepSectionDrawingItems ==
    /\ InLoop
    /\ LET w == FlattenWork(work)
       IN /\ IsSection(w[1])
          /\ estimate_height(w[1].items, content_height) <= content_height
          /\ ~KeepFirst(w).raised
          /\ ~KeepSecond(w).raised
          /\ overlays' = Append(overlays,
                                KeepFirst(w).placed \o KeepSecond(w).placed)
          /\ work' = KeepSecond(w).rest
          /\ flowables' = [n \in DOMAIN flowables |->
                              IF flowables[n] = w[1]
                              THEN Section(KeepFirst(w).rest)
                              ELSE flowables[n]]
    /\ UNCHANGED <<parserVars, content_height, pc>>

\* lines 189-198: the head is a SECTION whose estimate is within
\* content_height.  The frame is filled from the copy items[:] and from
\* work, which is the copy of line 155 or the new list of lines 172-182,
\* so neither the caller's list nor a section's list loses a block.
KeepSection ==
    /\ InLoop
    /\ LET w == FlattenWork(work)
       IN /\ IsSection(w[1])
          /\ estimate_height(w[1].items, content_height) <= content_height
          /\ ~KeepFirst(w).raised
          /\ ~KeepSecond(w).raised
          /\ overlays' = Append(overlays,
                                KeepFirst(w).placed \o KeepSecond(w).placed)
          /\ work' = KeepSecond(w).rest
    /\ UNCHANGED <<parserVars, flowables, content_height, pc>>

\* the splice of line 201 written as work = items, losing work[1:]
SplitSectionLosingTail ==
    /\ InLoop
    /\ LET w == FlattenWork(work)
       IN /\ IsSection(w[1])
          /\ estimate_height(w[1].items, content_height) > content_height
          /\ LET r == addFromList(w[1].items, FrameHeight(content_height))
             IN /\ ~r.raised
                /\ overlays' = Append(overlays, r.placed)
                /\ work' = r.rest
    /\ UNCHANGED <<parserVars, flowables, content_height, pc>>

\* lines 199-202: the head is a SECTION estimated taller than content_height
SplitSection ==
    /\ InLoop
    /\ LET w == FlattenWork(work)
       IN /\ IsSection(w[1])
          /\ estimate_height(w[1].items, content_height) > content_height
          /\ LET r == addFromList(w[1].items \o Tail(w),
                                  FrameHeight(content_height))
             IN /\ ~r.raised
                /\ overlays' = Append(overlays, r.placed)
                /\ work' = r.rest
    /\ UNCHANGED <<parserVars, flowables, content_height, pc>>

\* lines 203-205: the head is a plain flowable
FillPage ==
    /\ InLoop
    /\ LET w == FlattenWork(work)
       IN /\ ~IsSection(w[1])
          /\ LET r == addFromList(w, FrameHeight(content_height))
             IN /\ ~r.raised
                /\ overlays' = Append(overlays, r.placed)
                /\ work' = r.rest
    /\ UNCHANGED <<parserVars, flowables, content_height, pc>>

\* a frame call of the iteration raises LayoutError, which make_overlay_pages
\* does not catch: the call ends without a result
LayoutError ==
    /\ InLoop
    /\ LET w == FlattenWork(work)
           ch == content_height
       IN IF IsSection(w[1])
          THEN IF estimate_height(w[1].items, ch) <= ch
               THEN \/ /\ TooLarge(KeepFirst(w), ch)
                       /\ work' = w
                    \/ /\ ~TooLarge(KeepFirst(w), ch)
                       /\ TooLarge(KeepSecond(w), ch)
                       /\ work' = KeepSecond(w).rest
               ELSE LET r == addFromList(w[1].items \o Tail(w), FrameHeight(ch))
                    IN TooLarge(r, ch) /\ work' = r.rest
          ELSE LET r == addFromList(w, FrameHeight(ch))
               IN TooLarge(r, ch) /\ work' = r.rest
    /\ pc' = "raised"
    /\ UNCHANGED <<parserVars, flowables, content_height, overlays>>

\* line 170 with work empty, line 210
Return ==
    /\ pc = "run"
    /\ work = <<>>
    /\ pc' = "done"
    /\ UNCHANGED <<parserVars, flowables, content_height, work, overlays>>

Next == KeepSection \/ SplitSection \/ FillPage \/ LayoutError \/ Return

Spec == Init /\ [][Next]_vars

(***************************************************************************)
(* make_overlay_pages over blocks of which one may fail to be measured.    *)
(* flowable.wrap is called in two places: by estimate_height inside try    *)
(* (lines 161-164), and by Frame.add under frame.addFromList (lines 194,   *)
(* 198, 202, 205), which no try encloses.                                  *)
(***************************************************************************)
MeasureInit ==
    /\ lines = <<>>
    /\ i = 1
    /\ current_list = <<>>
    /\ current_list_type = "none"
    /\ current_section = <<>>
    /\ flowables \in MeasureInputs
    /\ content_height \in ContentHeights
    /\ work = flowables
    /\ overlays = <<>>
    /\ pc = "run"

\* a wrap called by the frame raises: the exception leaves addFromList and
\* make_overlay_pages, no page is appended for the iteration.  In the
\* keep-together branch it is the call of line 198 that can raise: every
\* block of the section was wrapped by estimate_height just before.
WrapRaises ==
    /\ InLoop
    /\ LET w == FlattenWork(work)
           ch == content_height
       IN IF IsSection(w[1])
          THEN IF estimate_height(w[1].items, ch) <= ch
               THEN /\ ~TooLarge(KeepFirst(w), ch)
                    /\ KeepSecond(w).raised
                    /\ work' = KeepSecond(w).rest
               ELSE LET r == addFromList(w[1].items \o Tail(w), FrameHeight(ch))
                    IN r.raised /\ work' = r.rest
          ELSE LET r == addFromList(w, FrameHeight(ch))
               IN r.raised /\ work' = r.rest
    /\ pc' = "wrap_raised"
    /\ UNCHANGED <<parserVars, flowables, content_height, overlays>>

MeasureNext == Next \/ WrapRaises

MeasureSpec == MeasureInit /\ [][MeasureNext]_vars

(***************************************************************************)
(* Properties of make_overlay_pages.                                       *)
(***************************************************************************)
RECURSIVE Concat(_)
Concat(pages) == IF pages = <<>> THEN <<>> ELSE Head(pages) \o Concat(Tail(pages))

Ids(s) == { s[k].id : k \in DOMAIN s }

LastPage == overlays[Len(overlays)]

\* s occurs in t as a contiguous run
OccursIn(s, t) ==
    \E k \in 0..(Len(t) - Len(s)) : SubSeq(t, k + 1, k + Len(s)) = s

\* the step appended one page
PageAdded == overlays' # overlays

\* C1: when make_overlay_pages returns, the blocks of the pages, page after
\* page, are the input sequence with every SECTION flattened.
Conservation == pc = "done" => Concat(overlays) = FlattenAll(flowables)

\* C2: when make_overlay_pages returns, every SECTION of the input whose
\* blocks measure to at most content_height in total has all its blocks on
\* one page, in order and with no other block between them.
SectionAtomicity ==
    pc = "done" =>
        \A n \in DOMAIN flowables :
            (IsSection(flowables[n])
             /\ SeqSum(flowables[n].items) <= content_height)
            => \E p \in DOMAIN overlays :
                   OccursIn(flowables[n].items, overlays[p])

\* a SECTION taller than content_height is at the head of the queue
OversizedSectionAtHead ==
    /\ pc = "run"
    /\ work # <<>>
    /\ IsSection(work[1])
    /\ SeqSum(work[1].items) > content_height

\* C3: a page step that finds a SECTION taller than content_height at the
\* queue head puts the section's blocks in its place: the page drawn
\* followed by the queue left is the section's blocks followed by the rest
\* of the queue, the page does not hold the whole section, and a run that
\* started with such a section returns pages that hold every block in the
\* original order.
SectionSplitting ==
    /\ [][(OversizedSectionAtHead /\ PageAdded) =>
            /\ LastPage' \o work' = work[1].items \o FlattenAll(Tail(work))
            /\ ~OccursIn(work[1].items, LastPage')]_vars
    /\ [](( /\ pc = "done"
            /\ flowables # <<>>
            /\ IsSection(flowables[1])
            /\ SeqSum(flowables[1].items) > content_height)
          => Concat(overlays) = FlattenAll(flowables))

\* a section taller than the page went out block by block over three pages
\* and the blocks behind it followed
SectionSplittingWitness ==
    /\ pc = "done"
    /\ Len(flowables) > 1
    /\ IsSection(flowables[1])
    /\ SeqSum(flowables[1].items) > content_height
    /\ Len(overlays) >= 3
    /\ Concat(overlays) = FlattenAll(flowables)

\* C4: every loop iteration (every page) takes at least one block off the
\* queue, so the queue empties and make_overlay_pages returns.
QueueShrinksEveryPage ==
    [][PageAdded => Len(FlattenAll(work')) < Len(FlattenAll(work))]_vars

\* C5: a plain block taller than content_height at the head of the queue is
\* drawn on the page of that iteration and leaves the queue; the run goes on.
OversizedBlockPlaced ==
    [][(/\ pc = "run"
        /\ work # <<>>
        /\ ~IsSection(work[1])
        /\ work[1].h > content_height)
       => /\ pc' = "run"
          /\ PageAdded
          /\ LastPage' # <<>>
          /\ LastPage'[1] = work[1]
          /\ work[1].id \notin Ids(FlattenAll(work'))]_vars

\* the blocks of page P that come before block b in document order
PlacedBefore(P, b) == SelectSeq(P, LAMBDA x : x.id < b.id)

\* t is what is left of s after dropping some of its front
IsSuffix(t, s) == Len(t) <= Len(s) /\ SubSeq(s, Len(s) - Len(t) + 1, Len(s)) = t

\* C6: the heights of the blocks of every page sum to at most
\* content_height unless the page's first block alone is taller; and on
\* every page step a queued block that would take the page's running total
\* above content_height is not on the page and is still queued, the queue
\* left being the tail end of the queue before; when the page was filled
\* from plain blocks, the page and the queue left make up the queue before,
\* so the first block not drawn heads the queue for the next page.
PageCapacity ==
    /\ [](\A p \in DOMAIN overlays :
            \/ SeqSum(overlays[p]) <= content_height
            \/ (overlays[p] # <<>> /\ overlays[p][1].h > content_height))
    /\ [][PageAdded =>
            LET F == FlattenAll(work)
            IN /\ IsSuffix(work', F)
               /\ ~IsSection(work[1]) => LastPage' \o work' = F
               /\ \A k \in DOMAIN F :
                    SeqSum(PlacedBefore(LastPage', F[k])) + F[k].h > content_height
                    => /\ F[k].id \notin Ids(LastPage')
                       /\ F[k].id \in Ids(work')]_vars

\* a page was closed with blocks on it because the next block would have
\* taken it over content_height; that block heads the queue
PageCapacityWitness ==
    /\ pc = "run"
    /\ overlays # <<>>
    /\ LastPage # <<>>
    /\ work # <<>>
    /\ SeqSum(LastPage) + work[1].h > content_height
    /\ work[1].id \notin Ids(Concat(overlays))

(***************************************************************************)
(* Properties of build_flowables.                                          *)
(***************************************************************************)
\* the containers a parsed block can be in: the top level, the list of an
\* emitted SECTION, the open section
Containers ==
    {flowables, current_section}
    \cup { flowables[k].items : k \in { j \in DOMAIN flowables : IsSection(flowables[j]) } }

IsList(f) == f.kind = "ListFlowable"

ListRuns ==
    UNION { { c[k] : k \in { j \in DOMAIN c : IsList(c[j]) } } : c \in Containers }

\* every item of the list its was built from a line of the given kind
ItemsOfKind(its, kind) ==
    \A k \in DOMAIN its :
        /\ its[k].id \in DOMAIN lines
        /\ IF kind = "bullet" THEN MatchesBullet(lines[its[k].id])
           ELSE MatchesNumber(lines[its[k].id])

\* the container list flushes go to
CurrentContainer == IF current_section # <<>> THEN current_section ELSE flowables

IsPrefix(s, t) == Len(s) <= Len(t) /\ SubSeq(t, 1, Len(s)) = s

\* C7: every list run, emitted or still open, holds items of one kind only,
\* the kind it is marked with; and a step that changes the kind of the open
\* list appends the open run as it is to the current container and starts
\* a run of one item.
ListHomogeneity ==
    /\ [](/\ \A lf \in ListRuns :
               /\ lf.items # <<>>
               /\ lf.bulletType \in {"bullet", "1"}
               /\ ItemsOfKind(lf.items,
                              IF lf.bulletType = "bullet" THEN "bullet" ELSE "number")
          /\ current_list # <<>> => ItemsOfKind(current_list, current_list_type))
    /\ [][(/\ current_list # <<>>
           /\ current_list_type' \in {"bullet", "number"}
           /\ current_list_type' # current_list_type)
          => /\ CurrentContainer' =
                    Append(CurrentContainer,
                           ListFlowable(current_list,
                                        IF current_list_type = "bullet"
                                        THEN "bullet" ELSE "1"))
             /\ Len(current_list') = 1]_vars

\* container c holds at j a bullet run with the item of line k and right
\* behind it a numbered run with the item of line k + 1
TwoRunsAt(c, j, k) ==
    /\ j + 1 \in DOMAIN c
    /\ IsList(c[j]) /\ c[j].bulletType = "bullet"
    /\ IsList(c[j + 1]) /\ c[j + 1].bulletType = "1"
    /\ k \in Ids(c[j].items)
    /\ (k + 1) \in Ids(c[j + 1].items)

TwoRunsFor(k) == \E c \in Containers : \E j \in DOMAIN c : TwoRunsAt(c, j, k)

\* a text with a numbered run right behind a bullet run has been parsed
ListHomogeneityWitness ==
    /\ pc = "parsed"
    /\ \E k \in DOMAIN lines : TwoRunsFor(k)

\* C8: a bullet line with a numbered line right behind it always
\* gives a bullet run with the first line's item and then a numbered run
\* with the second line's item.
BulletThenNumberAlways ==
    pc = "parsed" =>
        \A k \in 1..(Len(lines) - 1) :
            (MatchesBullet(lines[k]) /\ MatchesNumber(lines[k + 1]))
            => TwoRunsFor(k)

\* the line behind line k, '' at the end of the text
LineAfter(k) == IF k + 1 <= Len(lines) THEN lines[k + 1] ELSE <<>>

\* C8, amended: the same holds when neither of the two lines is taken as a
\* pseudo-heading label, that is the bullet line's trimmed text does not
\* end with ':' and the numbered line is not one ending with ':' that has a
\* list line behind it.
BulletThenNumber ==
    pc = "parsed" =>
        \A k \in 1..(Len(lines) - 1) :
            (/\ MatchesBullet(lines[k])
             /\ MatchesNumber(lines[k + 1])
             /\ ~EndsWithColon(Strip(lines[k]))
             /\ ~(/\ EndsWithColon(Strip(lines[k + 1]))
                  /\ \/ MatchesBullet(Strip(LineAfter(k + 1)))
                     \/ MatchesNumber(Strip(LineAfter(k + 1)))))
            => TwoRunsFor(k)

\* a bullet line and a numbered line behind it were parsed inside a section
BulletThenNumberWitness ==
    /\ pc = "parsed"
    /\ \E k \in 2..(Len(lines) - 1) :
          /\ MatchesBullet(lines[k])
          /\ ~EndsWithColon(Strip(lines[k]))
          /\ MatchesNumber(lines[k + 1])
          /\ \E n \in DOMAIN flowables :
                /\ IsSection(flowables[n])
                /\ \E j \in DOMAIN flowables[n].items :
                      TwoRunsAt(flowables[n].items, j, k)

\* the step closes the open section: what follows is not a continuation
SectionClosed == current_section # <<>> /\ ~IsPrefix(current_section, current_section')

\* C9: a step that closes the section accumulator holding k blocks (the
\* open list, flushed into it first, counted) appends exactly one entry to
\* the top level: a SECTION of these k blocks if k > 1, the single block
\* itself if k = 1; no SECTION of fewer than two blocks is ever emitted.
SectionInlining ==
    /\ [](\A n \in DOMAIN flowables :
             IsSection(flowables[n]) => Len(flowables[n].items) >= 2)
    /\ [][SectionClosed =>
            LET k == Len(current_section) + (IF current_list # <<>> THEN 1 ELSE 0)
                e == flowables'[Len(flowables) + 1]
            IN /\ Len(flowables') >= Len(flowables) + 1
               /\ IsPrefix(flowables, flowables')
               /\ IF k > 1
                  THEN /\ IsSection(e)
                       /\ Len(e.items) = k
                       /\ IsPrefix(current_section, e.items)
                  ELSE e = current_section[1]]_vars

\* a section of one block was closed and went to the top level unwrapped,
\* and a section of several blocks was emitted as a SECTION
SectionInliningWitness ==
    /\ pc = "parsed"
    /\ \E n \in DOMAIN flowables :
          /\ flowables[n].kind = "Paragraph"
          /\ flowables[n].style = "h2"
    /\ \E n \in DOMAIN flowables : IsSection(flowables[n])

\* the lines behind the first are n >= 1 list lines of one kind
ListLinesFollow ==
    /\ Len(lines) >= 2
    /\ \/ \A k \in 2..Len(lines) : MatchesBullet(lines[k])
       \/ \A k \in 2..Len(lines) : MatchesNumber(lines[k])

\* the items build_flowables makes of the list lines behind the first line
ExpectedItems ==
    [k \in 1..(Len(lines) - 1) |->
        Paragraph(_inline_format(Strip(IF MatchesBullet(lines[k + 1])
                                       THEN BulletText(lines[k + 1])
                                       ELSE NumberText(lines[k + 1]))),
                  "body", k + 1)]

\* one Section: the label's Paragraph and one list run of all the list lines
LabelledList ==
    flowables =
        <<Section(<<Paragraph(_inline_format(Strip(lines[1])), "body", 1),
                    ListFlowable(ExpectedItems,
                                 IF MatchesBullet(lines[2]) THEN "bullet" ELSE "1")>>)>>

\* C10: a text made of a line that is neither blank nor a heading and ends
\* with ':', and of n >= 1 list lines of one kind behind it, parses to
\* exactly one Section: the body Paragraph of that line followed by one
\* list run of the n items.
PseudoHeadingAlways ==
    (/\ pc = "parsed"
     /\ ListLinesFollow
     /\ NoHeading(lines[1])
     /\ EndsWithColon(Strip(lines[1])))
    => LabelledList

\* the open list as flush_list would append it, nothing when none is open
OpenListFlushed ==
    IF current_list = <<>> THEN <<>>
    ELSE <<ListFlowable(current_list,
                        IF current_list_type = "bullet" THEN "bullet" ELSE "1")>>

\* the Spacers among the blocks of s
SpacersIn(s) == SelectSeq(s, LAMBDA f : f.kind = "Spacer")

BlankLineNumbers == { k \in DOMAIN lines : IsBlank(lines[k]) }

\* C11: a step on a blank line appends the open list, if any, and then one
\* Spacer to the current container (the open section if there is one, else
\* the top level), leaves no list open and leaves the other container and
\* the open section's being open as they are; and a parsed text has, with
\* its Sections flattened, as many Spacers as it has blank lines.
BlankLines ==
    /\ [][(AtLine /\ IsBlank(line)) =>
            /\ current_list' = <<>>
            /\ IF current_section # <<>>
               THEN /\ current_section' =
                           current_section \o OpenListFlushed \o <<Spacer(i)>>
                    /\ flowables' = flowables
               ELSE /\ flowables' = flowables \o OpenListFlushed \o <<Spacer(i)>>
                    /\ current_section' = <<>>]_vars
    /\ [](pc = "parsed" =>
            Len(SpacersIn(FlattenAll(flowables))) = Cardinality(BlankLineNumbers))

\* two blank lines in a row behind a list inside a section left two Spacers
\* in that section
BlankLinesWitness ==
    /\ pc = "parsed"
    /\ \E k \in 3..(Len(lines) - 1) : IsBlank(lines[k]) /\ IsBlank(lines[k + 1])
    /\ \E n \in DOMAIN flowables :
          /\ IsSection(flowables[n])
          /\ \E j \in DOMAIN flowables[n].items :
                /\ j + 2 \in DOMAIN flowables[n].items
                /\ IsList(flowables[n].items[j])
                /\ flowables[n].items[j + 1].kind = "Spacer"
                /\ flowables[n].items[j + 2].kind = "Spacer"

\* what a parsed block is, and the line it was built from
Tag(f, what) == [id |-> f.id, what |-> what]

\* the blocks of s with Sections and list runs unwrapped, each tagged
\* "Spacer", "h1", "h2", "item" (a list item) or "Paragraph"
RECURSIVE LeafTags(_)
LeafTags(s) ==
    IF s = <<>> THEN <<>>
    ELSE LET f == Head(s)
         IN (IF IsSection(f) THEN LeafTags(f.items)
             ELSE IF IsList(f) THEN [k \in 1..Len(f.items) |-> Tag(f.items[k], "item")]
             ELSE IF f.kind = "Spacer" THEN <<Tag(f, "Spacer")>>
             ELSE IF f.style = "h1" THEN <<Tag(f, "h1")>>
             ELSE IF f.style = "h2" THEN <<Tag(f, "h2")>>
             ELSE <<Tag(f, "Paragraph")>>)
            \o LeafTags(Tail(s))

\* line k is taken as a pseudo-heading label
LabelAt(k) == NoHeading(lines[k]) /\ IsLabel(lines[k], LineAfter(k))

\* what line k is to become
ExpectedTag(k) ==
    IF IsBlank(lines[k]) THEN "Spacer"
    ELSE IF IsH1(lines[k]) THEN "h1"
    ELSE IF IsH2(lines[k]) THEN "h2"
    ELSE IF LabelAt(k) THEN "Paragraph"
    ELSE IF MatchesBullet(lines[k]) \/ MatchesNumber(lines[k]) THEN "item"
    ELSE "Paragraph"

\* C12: with its Sections and list runs unwrapped, the output for a parsed
\* text has exactly one element for each input line, in the order of the
\* lines: a Spacer for a blank line, a heading of the level for a '# ' or
\* '## ' line, a Paragraph for a pseudo-heading label, a list item for any
\* other list line and a Paragraph for every line left.
LineAccounting ==
    pc = "parsed" =>
        LeafTags(flowables) =
            [k \in 1..Len(lines) |-> [id |-> k, what |-> ExpectedTag(k)]]

\* a text of every kind of block whose last line is an item of a list that
\* was still open at the end of the input, inside a section
LineAccountingWitness ==
    /\ pc = "parsed"
    /\ Len(lines) = MaxLines
    /\ ExpectedTag(Len(lines)) = "item"
    /\ \E k \in DOMAIN lines : ExpectedTag(k) = "Spacer"
    /\ \E k \in DOMAIN lines : LabelAt(k)
    /\ IsSection(flowables[Len(flowables)])
    /\ Len(LeafTags(flowables)) = Len(lines)

IsHeading(f, st) == f.kind = "Paragraph" /\ f.style = st

\* f is the body Paragraph of a line taken as a pseudo-heading label
IsLabelParagraph(f) ==
    /\ IsHeading(f, "body")
    /\ f.id \in DOMAIN lines
    /\ LabelAt(f.id)

\* the block list its is made like a section's: two blocks or more, a
\* level-2 heading or a label first, then no SECTION and no heading
SectionShaped(its) ==
    /\ Len(its) >= 2
    /\ IsHeading(its[1], "h2") \/ IsLabelParagraph(its[1])
    /\ \A k \in 2..Len(its) :
          /\ ~IsSection(its[k])
          /\ ~IsHeading(its[k], "h1")
          /\ ~IsHeading(its[k], "h2")

\* C16: every SECTION build_flowables emits has at least two blocks, begins
\* with a level-2 heading or the Paragraph of a pseudo-heading label, and
\* holds behind it no SECTION and no level-1 or level-2 heading; the open
\* section never holds a SECTION or a level-1 heading either, so level-1
\* headings stand at the top level only.
SectionStructure ==
    /\ \A n \in DOMAIN flowables :
          IsSection(flowables[n]) => SectionShaped(flowables[n].items)
    /\ \A k \in DOMAIN current_section :
          /\ ~IsSection(current_section[k])
          /\ ~IsHeading(current_section[k], "h1")

\* a text with a '# ' line behind an open section was parsed: the section
\* was emitted and the level-1 heading stands behind it at the top level
SectionStructureWitness ==
    /\ pc = "parsed"
    /\ \E n \in DOMAIN flowables :
          /\ n + 1 \in DOMAIN flowables
          /\ IsSection(flowables[n])
          /\ Len(flowables[n].items) >= 3
          /\ IsHeading(flowables[n + 1], "h1")

\* the label of line k stands first in an emitted SECTION and the block right
\* behind it is a list run that holds the item of line k + 1
LabelHeadsItsList(k) ==
    \E n \in DOMAIN flowables :
        /\ IsSection(flowables[n])
        /\ flowables[n].items[1].kind = "Paragraph"
        /\ flowables[n].items[1].id = k
        /\ IsList(flowables[n].items[2])
        /\ \E m \in DOMAIN flowables[n].items[2].items :
              flowables[n].items[2].items[m].id = k + 1

\* C20: once the text is parsed, every line that was taken as a pseudo-heading
\* label is the first block of an emitted SECTION, and the second block of
\* that SECTION is a list run holding the item of the following line.
LabelOpensListSection ==
    pc = "parsed" => \A k \in DOMAIN lines : LabelAt(k) => LabelHeadsItsList(k)

\* largest number of lines of a text parsed for its runs of spaces
MaxWsLines == 2

\* lines with runs of two spaces or more at the start, in the middle and at
\* the end:  "", "#   a", "## a  b", "a  b:", "-  a", "1. a  ", "a  ",
\* "  a" and "a   b"
WsLines ==
    { <<>>,
      <<"#", " ", " ", " ", "a">>,
      <<"#", "#", " ", "a", " ", " ", "b">>,
      <<"a", " ", " ", "b", ":">>,
      <<"-", " ", " ", "a">>,
      <<"1", ".", " ", "a", " ", " ">>,
      <<"a", " ", " ">>,
      <<" ", " ", "a">>,
      <<"a", " ", " ", " ", "b">> }

WsTexts == UNION { [1..n -> WsLines] : n \in 0..MaxWsLines }

\* build_flowables called with a text of WsTexts
WsInit ==
    /\ lines \in WsTexts
    /\ i = 1
    /\ current_list = <<>>
    /\ current_list_type = "none"
    /\ current_section = <<>>
    /\ flowables = <<>>
    /\ content_height = 0
    /\ work = <<>>
    /\ overlays = <<>>
    /\ pc = "parse"

WsSpec == WsInit /\ [][ParseNext]_vars

\* the Paragraphs of s, those inside Sections and list runs included
RECURSIVE LeafParagraphs(_)
LeafParagraphs(s) ==
    IF s = <<>> THEN <<>>
    ELSE LET f == Head(s)
         IN (IF IsSection(f) THEN LeafParagraphs(f.items)
             ELSE IF IsList(f) THEN f.items
             ELSE IF f.kind = "Paragraph" THEN <<f>>
             ELSE <<>>)
            \o LeafParagraphs(Tail(s))

\* the lengths of the maximal runs of two spaces or more of s, in order
RECURSIVE SpaceRuns(_)
SpaceRuns(s) ==
    IF s = <<>> THEN <<>>
    ELSE LET n == SpaceRun(s)
         IN IF n >= 2 THEN <<n>> \o SpaceRuns(DropFirst(s, n))
            ELSE SpaceRuns(Tail(s))

RECURSIVE NbspRun(_)
NbspRun(t) == IF t # <<>> /\ Head(t) = "&nbsp;" THEN 1 + NbspRun(Tail(t)) ELSE 0

\* for each maximal run of markers of t, in order: the length N of the run of
\* spaces it stands for when it is N-1 markers and one ordinary space, and 0
\* when no ordinary space follows the markers
RECURSIVE MarkedRuns(_)
MarkedRuns(t) ==
    IF t = <<>> THEN <<>>
    ELSE LET n == NbspRun(t)
         IN IF n >= 1
            THEN <<IF Len(t) > n /\ t[n + 1] = " " THEN n + 1 ELSE 0>>
                 \o MarkedRuns(DropFirst(t, n))
            ELSE MarkedRuns(Tail(t))

\* C14: once the text is parsed, the text of every block shows each maximal
\* run of N >= 2 spaces of its input line, wherever the run lies in the line,
\* as N-1 non-breaking-space markers followed by one ordinary space.
WhitespaceRule ==
    pc = "parsed" =>
        \A n \in DOMAIN LeafParagraphs(flowables) :
            LET f == LeafParagraphs(flowables)[n]
            IN MarkedRuns(f.text) = SpaceRuns(lines[f.id])

(***************************************************************************)
(* Further properties of make_overlay_pages.                               *)
(***************************************************************************)
\* C15: a page is closed only when the queue is empty or the block at the
\* head of the queue does not fit what is left of the page's capacity
\* content_height: whenever a page is appended and blocks stay queued, the
\* first of them is taller than content_height less the heights on the page
\* (a block as tall as what is left fits, so it would have been placed).
GreedyFill ==
    [][(PageAdded /\ work' # <<>>) =>
          Head(work').h > content_height - SeqSum(LastPage')]_vars

\* C17: no step of make_overlay_pages changes the caller's block sequence
\* or the block list of a SECTION in it: the sequence handed in keeps its
\* elements, their order and its length while pages are made from the queue.
FrameCondition == [][flowables' = flowables]_vars

\* a run ended that kept the first SECTION together and flattened a second
\* one, the queue is used up and the caller's sequence still holds both
FrameConditionWitness ==
    /\ pc = "done"
    /\ work = <<>>
    /\ Len(flowables) >= 2
    /\ IsSection(flowables[1])
    /\ IsSection(flowables[2])
    /\ overlays # <<>>
    /\ SubSeq(overlays[1], 1, Len(flowables[1].items)) = flowables[1].items

\* the step takes the keep-together branch (lines 193-198)
KeepTogetherStep ==
    /\ InLoop
    /\ IsSection(FlattenWork(work)[1])
    /\ estimate_height(FlattenWork(work)[1].items, content_height)
          <= content_height
    /\ PageAdded

\* C18: the queue the flattening pass leaves holds no SECTION behind its
\* first entry; once a page exists the queue holds no SECTION at all; and a
\* step that takes the keep-together branch makes the first page, its
\* SECTION being the first block of the caller's sequence.
SectionOnlyAtHead ==
    /\ [](\A k \in DOMAIN FlattenWork(work) :
            k >= 2 => ~IsSection(FlattenWork(work)[k]))
    /\ [](overlays # <<>> => \A k \in DOMAIN work : ~IsSection(work[k]))
    /\ [][KeepTogetherStep =>
            /\ overlays = <<>>
            /\ work[1] = flowables[1]]_vars

\* the first page was made with a SECTION queued behind the first block:
\* what is queued for the second page are that SECTION's blocks, unwrapped
SectionOnlyAtHeadWitness ==
    /\ pc = "run"
    /\ Len(overlays) = 1
    /\ work # <<>>
    /\ \E n \in DOMAIN flowables :
          /\ n >= 2
          /\ IsSection(flowables[n])
          /\ IsSuffix(work, flowables[n].items)

\* C19: in the keep-together branch the frame accepts every block of the
\* head SECTION: a step that takes the branch puts all of the SECTION's
\* blocks, in order, at the front of the page it makes, so the pop of line
\* 196 discards none of them.
KeepBranchAcceptsAll ==
    [][KeepTogetherStep =>
          LET its == FlattenWork(work)[1].items
          IN /\ Len(LastPage') >= Len(its)
             /\ SubSeq(LastPage', 1, Len(its)) = its]_vars

\* C13: a block whose measurement raises is taken as one that does not fit
\* and is put off to a later page: make_overlay_pages never ends with the
\* exception of a wrap, whatever block of its input cannot be measured.
MeasurementRecovered == pc # "wrap_raised"

====
